---- MODULE Spec2Model ----
(***************************************************************************)
(* The A* search of lab2 (astar) and the problems it is run on: the        *)
(* vacuum world (VacuumProblem, VacuumProblem1, VacuumProblem2) and a      *)
(* bounded family of explicit state graphs implementing the abstract       *)
(* class Problem.                                                          *)
(***************************************************************************)
EXTENDS Integers, Sequences, FiniteSets, Bags, TLC

VARIABLES problem, q, revealed, x, current, curr_state, curr_cost,
          possible, p, solution, result, pc, calls, log, prev

vars == <<problem, q, revealed, x, current, curr_state, curr_cost,
          possible, p, solution, result, pc, calls, log, prev>>

----------------------------------------------------------------------------
(* Bounds of the model. *)

\* number of states of a graph problem
NumStates == 3
\* number of actions available in the initial state of a graph problem
InitialDegree == 2
\* number of actions available in every other state of a graph problem
OtherDegree == 1
\* largest action cost of a graph problem (costs are 0..MaxCost)
MaxCost == 1
\* largest heuristic value of a graph problem
MaxH == 1
\* largest number of goal states of a graph problem
MaxGoals == 1
\* number of times astar is called on the same problem
MaxCalls == 2
\* cap on the pop counter x (never reached by the code, see CapNotReached)
MaxPops == 12
\* cap on the length of solution (never reached by the code, see CapNotReached)
MaxPlan == 8

----------------------------------------------------------------------------
(* Python values. *)

\* None, as stored for the predecessor of the initial state
None == <<>>

Max(a, b) == IF a >= b THEN a ELSE b
Min(a, b) == IF a <= b THEN a ELSE b

\* the list left in the order it was built in
NotReversed(s) == s

\* list.reverse()
Reverse(s) == [k \in 1..Len(s) |-> s[Len(s) + 1 - k]]

\* d[k] = v on a dict
Put(d, k, v) == [s \in (DOMAIN d) \cup {k} |-> IF s = k THEN v ELSE d[s]]

----------------------------------------------------------------------------
(* class VacuumProblem and its subclasses.  A state is <<robot, dirty>>,   *)
(* robot counted from 0 as in the source, dirty a tuple of booleans.       *)

VacuumKinds == {"VacuumProblem", "VacuumProblem1", "VacuumProblem2"}

VacuumProblem_initial_state == <<0, <<TRUE, TRUE>>>>

VacuumProblem_available_actions(state) == <<"Left", "Suck", "Right">>

VacuumProblem_do_action(state, action) ==
    LET robot == state[1]
        dirty == state[2]
    IN  CASE action = "Left"  -> <<Max(robot - 1, 0), dirty>>
          [] action = "Suck"  -> <<robot, [dirty EXCEPT ![robot + 1] = FALSE]>>
          [] action = "Right" -> <<Min(robot + 1, Len(dirty) - 1), dirty>>

VacuumProblem_is_goal(state) == ~ \E k \in DOMAIN state[2] : state[2][k]

VacuumProblem_action_cost(state, action) == 1

\* sum(state[1]): the number of dirty rooms
SumDirty(state) == Cardinality({k \in DOMAIN state[2] : state[2][k]})

VacuumProblem_heuristic(state) == SumDirty(state)

VacuumProblem1_heuristic(state) == Len(state[2]) - SumDirty(state)

\* 10 * the number of clean rooms
VacuumProblem2_heuristic_clean(state) == 10 * (Len(state[2]) - SumDirty(state))

VacuumProblem2_heuristic(state) == 10 * SumDirty(state)

----------------------------------------------------------------------------
(* Implementations of class Problem given by explicit tables: states       *)
(* <<0>> .. <<NumStates-1>>, initial state <<0>>.                          *)

ActionNames == <<"a", "b", "c", "d">>

GraphStates == {<<n>> : n \in 0..(NumStates - 1)}

Degree(state) == IF state = <<0>> THEN InitialDegree ELSE OtherDegree

GraphEdges ==
    UNION {{<<s, ActionNames[k]>> : k \in 1..Degree(s)} : s \in GraphStates}

GraphProblems ==
    [kind  : {"Graph"},
     do    : [GraphEdges -> GraphStates],
     cost  : [GraphEdges -> 0..MaxCost],
     h     : [GraphStates -> 0..MaxH],
     goals : {G \in SUBSET GraphStates : Cardinality(G) <= MaxGoals}]

----------------------------------------------------------------------------
(* class Problem: the six operations, dispatched on the problem object.    *)

IsGraph == problem.kind = "Graph"

initial_state == IF IsGraph THEN <<0>> ELSE VacuumProblem_initial_state

available_actions(state) ==
    IF IsGraph THEN [k \in 1..Degree(state) |-> ActionNames[k]]
    ELSE VacuumProblem_available_actions(state)

do_action(state, action) ==
    IF IsGraph THEN problem.do[<<state, action>>]
    ELSE VacuumProblem_do_action(state, action)

is_goal(state) ==
    IF IsGraph THEN state \in problem.goals
    ELSE VacuumProblem_is_goal(state)

action_cost(state, action) ==
    IF IsGraph THEN problem.cost[<<state, action>>]
    ELSE VacuumProblem_action_cost(state, action)

heuristic(state) ==
    CASE IsGraph -> problem.h[state]
      [] problem.kind = "VacuumProblem"  -> VacuumProblem_heuristic(state)
      [] problem.kind = "VacuumProblem1" -> VacuumProblem1_heuristic(state)
      [] problem.kind = "VacuumProblem2" -> VacuumProblem2_heuristic(state)

----------------------------------------------------------------------------
(* queue.PriorityQueue of (f, state) pairs: get() removes a least entry    *)
(* under Python's tuple comparison.                                        *)

\* tuple < tuple on two tuples of booleans (False < True)
DirtyLess(d, e) ==
    \E k \in 1..Min(Len(d), Len(e)) :
        /\ \A j \in 1..(k - 1) : d[j] = e[j]
        /\ ~d[k] /\ e[k]

\* state < state
StateLess(s, t) ==
    IF IsGraph THEN s[1] < t[1]
    ELSE \/ s[1] < t[1]
         \/ s[1] = t[1] /\ DirtyLess(s[2], t[2])

\* entries compared by state before f
EntryLessStateFirst(d, e) ==
    \/ StateLess(d[2], e[2])
    \/ d[2] = e[2] /\ d[1] < e[1]

\* entries compared by f alone
EntryLessByF(d, e) == d[1] < e[1]

\* (f, state) < (f, state)
EntryLess(d, e) ==
    \/ d[1] < e[1]
    \/ d[1] = e[1] /\ StateLess(d[2], e[2])

\* the entry q.get() returns
PQMin(pq) ==
    CHOOSE e \in BagToSet(pq) : \A o \in BagToSet(pq) : ~EntryLess(o, e)

PQPut(pq, e) == pq (+) SetToBag({e})

PQRemove(pq, e) == pq (-) SetToBag({e})

----------------------------------------------------------------------------
(* def astar(problem)                                                      *)

\* a record of revealed: the tuple (predecessor, action, f, g)
Record(pred, action, f, g) == [pred |-> pred, action |-> action, f |-> f, g |-> g]

\* revealed = {initial: (None, "", h(initial), 0)}
InitialRevealed == (initial_state :> Record(None, "", heuristic(initial_state), 0))

\* q.put((h(initial), initial)) on a new queue
InitialQueue == PQPut(EmptyBag, <<heuristic(initial_state), initial_state>>)

\* the table of the last call kept (a table shared between calls)
KeptRevealed(old) == IF DOMAIN old = {} THEN InitialRevealed ELSE old

\* the table a call of astar starts from, given the table the last call left
FreshRevealed(old) == InitialRevealed

\* the counter a call of astar starts from, given the counter the last call left
FreshCounter(old) == 0

\* the f of the popped entry taken for the cost of reaching its state
CurrCostPopped(rev, entry) == entry[1]

\* the g the popped entry was pushed with: its f less the heuristic
CurrCostOfEntry(rev, entry) == entry[1] - heuristic(entry[2])

\* curr_cost = revealed[current[1]][3]
CurrCost(rev, entry) == rev[entry[2]].g

\* the goal test, skipped for the initial state
GoalBreakNotInitial(state) == is_goal(state) /\ state # initial_state

\* if problem.is_goal(curr_state): break
GoalBreak(state) == is_goal(state)

\* a state once revealed is never recorded again
SkipRevealed(rev, state, cost) == state \in DOMAIN rev

\* > where the code has >=
SkipGreater(rev, state, cost) ==
    /\ state \in DOMAIN rev
    /\ cost > rev[state].f

\* the test left out
SkipNever(rev, state, cost) == FALSE

\* if new_state in revealed: if new_cost >= revealed[new_state][2]: continue
Skip(rev, state, cost) ==
    /\ state \in DOMAIN rev
    /\ cost >= rev[state].f

\* the locals of a call once lines 151-155 have run, given the table and the
\* counter the call before it left behind
Locals(oldRevealed, oldX) ==
    [q          |-> InitialQueue,
     revealed   |-> FreshRevealed(oldRevealed),
     x          |-> FreshCounter(oldX),
     current    |-> None,
     curr_state |-> None,
     curr_cost  |-> 0,
     possible   |-> <<>>,
     p          |-> 0,
     solution   |-> <<>>,
     result     |-> [tag |-> "running"],
     pc         |-> "loop",
     log        |-> <<>>]

Init ==
    /\ \/ problem \in GraphProblems
       \/ problem \in [kind : VacuumKinds]
    /\ calls = 1
    /\ prev = [tag |-> "none"]
    /\ LET l == Locals(<<>>, 0) IN
       /\ q = l.q
       /\ revealed = l.revealed
       /\ x = l.x
       /\ current = l.current
       /\ curr_state = l.curr_state
       /\ curr_cost = l.curr_cost
       /\ possible = l.possible
       /\ p = l.p
       /\ solution = l.solution
       /\ result = l.result
       /\ pc = l.pc
       /\ log = l.log

\* while not q.empty(): x += 1; current = q.get(); ...; is_goal test;
\* possible = available_actions(curr_state)
Pop ==
    /\ pc = "loop"
    /\ q # EmptyBag
    /\ x < MaxPops
    /\ LET e == PQMin(q) IN
       /\ x' = x + 1
       /\ current' = e
       /\ q' = PQRemove(q, e)
       /\ curr_state' = e[2]
       /\ curr_cost' = CurrCost(revealed, e)
       /\ log' = Append(log, <<"get", e>>)
       /\ IF GoalBreak(e[2])
          THEN /\ pc' = "reconstruct"
               /\ solution' = <<>>
               /\ UNCHANGED <<possible, p>>
          ELSE /\ possible' = available_actions(e[2])
               /\ p' = 1
               /\ pc' = IF possible' = <<>> THEN "loop" ELSE "for"
               /\ UNCHANGED solution
    /\ UNCHANGED <<problem, revealed, result, calls, prev>>

\* the while test fails: the queue is empty
Exhausted ==
    /\ pc = "loop"
    /\ q = EmptyBag
    /\ pc' = "reconstruct"
    /\ solution' = <<>>
    /\ UNCHANGED <<problem, q, revealed, x, current, curr_state, curr_cost,
                   possible, p, result, calls, log, prev>>

\* new_state = problem.do_action(curr_state, p)
new_state == do_action(curr_state, possible[p])

\* real_cost = problem.action_cost(curr_state, p) + curr_cost
real_cost == action_cost(curr_state, possible[p]) + curr_cost

\* new_cost = real_cost + problem.heuristic(new_state)
new_cost == real_cost + heuristic(new_state)

\* one iteration of: for p in possible
Successor ==
    /\ pc = "for"
    /\ IF Skip(revealed, new_state, new_cost)
       THEN UNCHANGED <<q, revealed, log>>
       ELSE LET rec == Record(curr_state, possible[p], new_cost, real_cost) IN
            /\ q' = PQPut(q, <<new_cost, new_state>>)
            /\ revealed' = Put(revealed, new_state, rec)
            /\ log' = Append(log, <<"put", new_state, rec>>)
    /\ IF p < Len(possible)
       THEN p' = p + 1 /\ pc' = "for"
       ELSE p' = p /\ pc' = "loop"
    /\ UNCHANGED <<problem, x, current, curr_state, curr_cost, possible,
                   solution, result, calls, prev>>

\* one iteration of: while revealed[curr_state][0] != None
Reconstruct ==
    /\ pc = "reconstruct"
    /\ revealed[curr_state].pred # None
    /\ Len(solution) < MaxPlan
    /\ solution' = Append(solution, revealed[curr_state].action)
    /\ curr_state' = revealed[curr_state].pred
    /\ UNCHANGED <<problem, q, revealed, x, current, curr_cost, possible, p,
                   result, pc, calls, log, prev>>

\* solution.reverse(); the two prints; return solution
Return ==
    /\ pc = "reconstruct"
    /\ revealed[curr_state].pred = None
    /\ solution' = Reverse(solution)
    /\ result' = [tag |-> "list", value |-> solution']
    /\ pc' = "done"
    /\ UNCHANGED <<problem, q, revealed, x, current, curr_state, curr_cost,
                   possible, p, calls, log, prev>>

\* what a finished call printed and returned
Outcome ==
    [tag     |-> "call",
     result  |-> result,
     visited |-> x,
     checked |-> Cardinality(DOMAIN revealed),
     log     |-> log,
     table   |-> revealed]

\* astar(problem) is called again on the same problem object
Call ==
    /\ pc = "done"
    /\ calls < MaxCalls
    /\ calls' = calls + 1
    /\ prev' = Outcome
    /\ problem' = problem
    /\ LET l == Locals(revealed, x) IN
       /\ q' = l.q
       /\ revealed' = l.revealed
       /\ x' = l.x
       /\ current' = l.current
       /\ curr_state' = l.curr_state
       /\ curr_cost' = l.curr_cost
       /\ possible' = l.possible
       /\ p' = l.p
       /\ solution' = l.solution
       /\ result' = l.result
       /\ pc' = l.pc
       /\ log' = l.log

Step == Pop \/ Exhausted \/ Successor \/ Reconstruct \/ Return

Next == Step \/ Call

\* one call of astar
Spec == Init /\ [][Step]_vars

\* repeated calls of astar on one problem object
SpecCalls == Init /\ [][Next]_vars

\* one call of astar, which is never suspended
FairSpec == Init /\ [][Step]_vars /\ WF_vars(Step)

----------------------------------------------------------------------------
(* Exhaustive search over the problem, for the statements about astar.     *)

Range(s) == {s[k] : k \in DOMAIN s}

MinOf(S) == CHOOSE m \in S : \A o \in S : m <= o

\* every state of the problem's state space
StateSpace ==
    IF IsGraph THEN GraphStates
    ELSE {<<r, <<d0, d1>>>> : r \in 0..1, d0 \in BOOLEAN, d1 \in BOOLEAN}

Successors(S) ==
    UNION {{do_action(s, a) : a \in Range(available_actions(s))} : s \in S}

RECURSIVE ReachFrom(_)
ReachFrom(S) ==
    LET T == S \cup Successors(S) IN IF T = S THEN S ELSE ReachFrom(T)

\* the states some sequence of legal actions reaches from the initial state
Reachable == ReachFrom({initial_state})

\* the total costs of the action sequences of at most k actions that lead
\* from state to a goal state
RECURSIVE GoalCosts(_, _)
GoalCosts(state, k) ==
    (IF is_goal(state) THEN {0} ELSE {})
    \cup (IF k = 0 THEN {}
          ELSE UNION {{action_cost(state, a) + c :
                          c \in GoalCosts(do_action(state, a), k - 1)} :
                      a \in Range(available_actions(state))})

\* with costs >= 0 a cheapest sequence visits no state twice
CostsToGoal(state) == GoalCosts(state, Cardinality(StateSpace) - 1)

GoalReachable == CostsToGoal(initial_state) # {}

OptimalCost == MinOf(CostsToGoal(initial_state))

\* h never overestimates the cost of reaching a goal
Admissible ==
    \A s \in Reachable :
        CostsToGoal(s) # {} => heuristic(s) <= MinOf(CostsToGoal(s))

\* h(s) <= c(s, a) + h(s')
Consistent ==
    \A s \in Reachable : \A a \in Range(available_actions(s)) :
        heuristic(s) <= action_cost(s, a) + heuristic(do_action(s, a))

\* the actions replayed from state with do_action: are they all available,
\* where do they end, what do they cost
RECURSIVE Replay(_, _)
Replay(state, actions) ==
    IF actions = <<>> THEN [legal |-> TRUE, end |-> state, cost |-> 0]
    ELSE IF Head(actions) \notin Range(available_actions(state))
    THEN [legal |-> FALSE, end |-> state, cost |-> 0]
    ELSE LET r == Replay(do_action(state, Head(actions)), Tail(actions))
         IN  [r EXCEPT !.cost = @ + action_cost(state, Head(actions))]

Done == pc = "done"

\* the caps on x and on solution stop no run of the code
CapNotReached ==
    /\ (pc = "loop" /\ q # EmptyBag) => x < MaxPops
    /\ (pc = "reconstruct" /\ revealed[curr_state].pred # None)
           => Len(solution) < MaxPlan

----------------------------------------------------------------------------
(* The statements. *)

\* C1: with a reachable goal and an admissible and consistent heuristic, the
\* returned actions are legal from the initial state, end in a goal state and
\* cost the minimum over all action sequences that reach a goal.
C1_Optimal ==
    (Done /\ GoalReachable /\ Admissible /\ Consistent) =>
        /\ result.tag = "list"
        /\ LET r == Replay(initial_state, result.value) IN
           /\ r.legal
           /\ is_goal(r.end)
           /\ r.cost = OptimalCost

\* C1 happens: a plan of two actions was returned although a dearer way to a
\* goal exists and the table was improved on the way.
C1_Witness ==
    /\ Done /\ GoalReachable /\ Admissible /\ Consistent
    /\ Len(result.value) = 2
    /\ Cardinality(CostsToGoal(initial_state)) > 1
    /\ \E k \in DOMAIN log : log[k][1] = "put" /\ is_goal(log[k][2])
                             /\ log[k][3].g > OptimalCost

\* C2: when no goal state is reachable the call reports "no solution" (None),
\* which is not an action sequence.
C2_NoSolution == (Done /\ ~GoalReachable) => result.tag = "None"

\* C3: when the initial state is a goal, the call pops once, generates no
\* successor, pushes nothing, leaves the table as initialised and returns the
\* empty sequence.
C3_GoalAtStart ==
    is_goal(initial_state) =>
        /\ pc # "for"
        /\ x <= 1
        /\ revealed = InitialRevealed
        /\ DOMAIN revealed = {initial_state}
        /\ q = (IF x = 0 THEN InitialQueue ELSE EmptyBag)
        /\ Done => /\ result = [tag |-> "list", value |-> <<>>]
                   /\ x = 1
                   /\ Cardinality(DOMAIN revealed) = 1

\* C3 happens: a call on a problem whose initial state is a goal has returned.
C3_Witness == is_goal(initial_state) /\ Done /\ x = 1

\* C4: on VacuumProblem the call returns Suck, Right, Suck after 4 pops with
\* 5 states in the table.
C4_ScenarioA ==
    (problem.kind = "VacuumProblem" /\ Done) =>
        /\ result = [tag |-> "list", value |-> <<"Suck", "Right", "Suck">>]
        /\ x = 4
        /\ Cardinality(DOMAIN revealed) = 5

\* C4 happens: the call on VacuumProblem has returned from a goal state.
C4_Witness ==
    /\ problem.kind = "VacuumProblem"
    /\ Done
    /\ is_goal(current[2])

\* C5: on VacuumProblem2 (h = 10 * dirty rooms) the call returns Suck, Right,
\* Suck, of total cost 3, the optimum, after 4 pops with 5 states in the table.
C5_ScenarioB ==
    (problem.kind = "VacuumProblem2" /\ Done) =>
        /\ result = [tag |-> "list", value |-> <<"Suck", "Right", "Suck">>]
        /\ Replay(initial_state, result.value).cost = 3
        /\ OptimalCost = 3
        /\ x = 4
        /\ Cardinality(DOMAIN revealed) = 5

\* C5 happens: the call on VacuumProblem2 has returned from a goal state, and
\* the heuristic is not admissible.
C5_Witness ==
    /\ problem.kind = "VacuumProblem2"
    /\ Done
    /\ is_goal(current[2])
    /\ ~Admissible

\* C6: a second call on the same problem pops the same entries, makes the same
\* table updates and returns the same actions, pop count and table size as
\* the first.
C6_SameOutcome == (calls >= 2 /\ Done) => Outcome = prev

\* C6 happens: a second call that expanded states and updated the table has
\* returned.
C6_Witness ==
    /\ calls = 2
    /\ Done
    /\ x > 1
    /\ Cardinality(DOMAIN revealed) > 1
    /\ prev.tag = "call"

\* C7: no step of the search removes a key of the table; a record changes only
\* to one with strictly lower f and strictly lower g; a successor whose new f
\* is not below the recorded f changes neither the table nor the frontier.
C7_TableImproves ==
    [][/\ \A s \in DOMAIN revealed :
            /\ s \in DOMAIN revealed'
            /\ revealed'[s] # revealed[s] =>
                   /\ revealed'[s].f < revealed[s].f
                   /\ revealed'[s].g < revealed[s].g
       /\ (/\ pc = "for"
           /\ new_state \in DOMAIN revealed
           /\ new_cost >= revealed[new_state].f)
              => (revealed' = revealed /\ q' = q)]_vars

\* the log holds a record written over an earlier record of the same state
Overwritten ==
    \E j \in DOMAIN log : \E k \in DOMAIN log :
        /\ j < k
        /\ log[j][1] = "put" /\ log[k][1] = "put"
        /\ log[j][2] = log[k][2]

\* C7 happens: a record was overwritten, and a successor with an equal f was
\* passed over.
C7_Witness ==
    /\ Overwritten
    /\ pc = "for"
    /\ new_state \in DOMAIN revealed
    /\ new_cost = revealed[new_state].f

\* C8: the record of the initial state is the one it was given at the start
\* (predecessor None, g = 0), and no other record has predecessor None.
C8_InitialRecord ==
    /\ initial_state \in DOMAIN revealed
    /\ revealed[initial_state] = InitialRevealed[initial_state]
    /\ revealed[initial_state].pred = None
    /\ revealed[initial_state].g = 0
    /\ \A s \in DOMAIN revealed : s # initial_state => revealed[s].pred # None

\* the states the call has expanded so far
Expanded ==
    {log[k][2][2] : k \in {j \in DOMAIN log : log[j][1] = "get"}}
        \ (IF pc = "for" THEN {curr_state} ELSE {})

\* C8 happens: a state other than the initial state, reached at cost 0, was
\* expanded and one of its actions leads back to the initial state at cost 0.
C8_Witness ==
    \E s \in Expanded \ {initial_state} :
        /\ ~is_goal(s)
        /\ revealed[s].g = 0
        /\ \E a \in Range(available_actions(s)) :
               /\ do_action(s, a) = initial_state
               /\ action_cost(s, a) = 0

\* C9: the search loop stops: the call leaves the while loop, by the break at
\* a goal state or with the frontier empty.
C9_LoopStops == <>(pc \in {"reconstruct", "done"})

\* C9 happens: the loop was left although an expanded state has an action of
\* cost 0 that leads back to itself or to the initial state.
C9_Witness ==
    /\ pc \in {"reconstruct", "done"}
    /\ \E s \in Expanded : \E a \in Range(available_actions(s)) :
           /\ ~is_goal(s)
           /\ do_action(s, a) \in {s, initial_state}
           /\ action_cost(s, a) = 0

\* the entry popped last has an f above the f recorded for its state
Stale(entry, rev) == entry[1] > rev[entry[2]].f

\* C10: popping a stale entry removes it, counts it and takes the g of the
\* table for the cost of its state; the expansion of a stale entry writes no
\* record and pushes no entry.
C10_StaleHarmless ==
    [][/\ (x' = x + 1 /\ Stale(current', revealed)) =>
              /\ revealed' = revealed
              /\ q' = PQRemove(q, current')
              /\ curr_state' = current'[2]
              /\ curr_cost' = revealed[current'[2]].g
       /\ (pc = "for" /\ Stale(current, revealed)) =>
              /\ curr_cost = revealed[curr_state].g
              /\ revealed' = revealed
              /\ q' = q
              /\ x' = x]_vars

\* C10 happens: a stale entry was popped and its expansion has finished.
C10_Witness ==
    /\ x >= 2
    /\ pc = "loop"
    /\ Stale(current, revealed)
    /\ ~is_goal(current[2])

\* following the predecessor links of rev from state reaches the initial
\* state without meeting a state of seen or any state twice
RECURSIVE LinksReachInitial(_, _, _)
LinksReachInitial(rev, state, seen) ==
    IF state = initial_state THEN TRUE
    ELSE IF state \in seen \/ state \notin DOMAIN rev THEN FALSE
    ELSE LinksReachInitial(rev, rev[state].pred, seen \cup {state})

\* the predecessor links of the table form a tree rooted at the initial state
PredecessorTree ==
    /\ initial_state \in DOMAIN revealed
    /\ revealed[initial_state].pred = None
    /\ \A s \in DOMAIN revealed \ {initial_state} :
           /\ revealed[s].pred \in DOMAIN revealed
           /\ revealed[s].action \in Range(available_actions(revealed[s].pred))
           /\ do_action(revealed[s].pred, revealed[s].action) = s
           /\ LinksReachInitial(revealed, s, {})

\* the returned actions lead from the initial state to the state popped last
\* and cost no more than the g recorded for it
ReturnedPath ==
    /\ result.tag = "list"
    /\ LET r == Replay(initial_state, result.value) IN
       /\ r.legal
       /\ r.end = current[2]
       /\ r.cost <= revealed[current[2]].g

====
